---------------------------- MODULE Spec2Model ----------------------------
(***************************************************************************)
(* A model of the psx emulator core: the Cpu register file with its load   *)
(* delay slot and the ALU handlers (src/psx/cpu.rs), the Instruction       *)
(* decoder (src/psx/cpu.rs), the ScratchPad and the region mapper          *)
(* (src/psx/mod.rs).                                                       *)
(*                                                                         *)
(* A u32 is the pair <<high half, low half>> of its two 16-bit halves,     *)
(* each in 0..65535: the value is high * 2^16 + low.  Every operation on   *)
(* a u32 is carried out on the halves, so the width of 32 bits is exact.   *)
(***************************************************************************)
EXTENDS Integers, Sequences, FiniteSets, TLC

VARIABLES
    \* Cpu: its fields, the last call made on it and the number of calls
    regs, pc, next_pc, delayed_load, hi, lo, last, steps,
    \* ScratchPad: its bytes, whether an access panicked, the last two
    \* accesses and the number of accesses
    dat, panicked, padLast, padPrev, ops,
    \* map::mask: the address passed and the address returned
    maskIn, maskOut,
    \* Instruction: the raw word and the fields decoded from it
    word, fields

cpuVars == <<regs, pc, next_pc, delayed_load, hi, lo, last, steps>>
padVars == <<dat, panicked, padLast, padPrev, ops>>
mapVars == <<maskIn, maskOut>>
decVars == <<word, fields>>
vars == <<cpuVars, padVars, mapVars, decVars>>

\* Option::None, and the value of a field of an object not constructed
None == <<>>

-----------------------------------------------------------------------------
(* u32 arithmetic on half-word pairs *)

U32(h, l) == <<h, l>>
Zero == U32(0, 0)
One == U32(0, 1)

Pow2(n) == 2 ^ n

\* bitwise operators on naturals below 2^16
RECURSIVE And16(_, _)
And16(x, y) ==
    IF x = 0 \/ y = 0 THEN 0
    ELSE 2 * And16(x \div 2, y \div 2) + (x % 2) * (y % 2)

RECURSIVE Or16(_, _)
Or16(x, y) ==
    IF x = 0 THEN y
    ELSE IF y = 0 THEN x
    ELSE 2 * Or16(x \div 2, y \div 2) + (IF x % 2 = 1 \/ y % 2 = 1 THEN 1 ELSE 0)

RECURSIVE Xor16(_, _)
Xor16(x, y) ==
    IF x = 0 THEN y
    ELSE IF y = 0 THEN x
    ELSE 2 * Xor16(x \div 2, y \div 2) + ((x + y) % 2)

\* a & b, a | b, a ^ b, !a on u32
And32(a, b) == U32(And16(a[1], b[1]), And16(a[2], b[2]))
Or32(a, b) == U32(Or16(a[1], b[1]), Or16(a[2], b[2]))
Xor32(a, b) == U32(Xor16(a[1], b[1]), Xor16(a[2], b[2]))
Not32(a) == U32(65535 - a[1], 65535 - a[2])

\* a >> n and a << n on u32, 0 <= n < 32
Shr32(a, n) ==
    IF n >= 16 THEN U32(0, a[1] \div Pow2(n - 16))
    ELSE U32(a[1] \div Pow2(n), (a[2] \div Pow2(n)) + (a[1] % Pow2(n)) * Pow2(16 - n))

Shl32(a, n) ==
    IF n >= 16 THEN U32((a[2] * Pow2(n - 16)) % 65536, 0)
    ELSE U32((a[1] * Pow2(n) + a[2] \div Pow2(16 - n)) % 65536, (a[2] * Pow2(n)) % 65536)

\* u32::wrapping_add, u32::wrapping_sub
wrapping_add(a, b) ==
    LET l == a[2] + b[2]
    IN  U32((a[1] + b[1] + l \div 65536) % 65536, l % 65536)

wrapping_sub(a, b) ==
    LET l == a[2] - b[2]
        borrow == IF l < 0 THEN 1 ELSE 0
    IN  U32((a[1] - b[1] - borrow) % 65536, l % 65536)

\* a < b on u32
Lt32(a, b) == a[1] < b[1] \/ (a[1] = b[1] /\ a[2] < b[2])

\* `x as i32`: the two's complement reading of a u32, an integer in -2^31 .. 2^31-1
as_i32(a) == IF a[1] >= 32768 THEN (a[1] - 65536) * 65536 + a[2] ELSE a[1] * 65536 + a[2]

\* `x as usize` of a u32 known to be below 2^31
as_usize(a) == a[1] * 65536 + a[2]

\* `b as u32` of a bool
bool_as_u32(b) == IF b THEN One ELSE Zero

-----------------------------------------------------------------------------
(* Instruction: the decoder's accessors over the raw word *)

op(i) == as_usize(And32(Shr32(i, 26), U32(0, 63)))

op2(i) == as_usize(And32(i, U32(0, 31)))

rs(i) == as_usize(And32(Shr32(i, 21), U32(0, 31)))

rt(i) == as_usize(And32(Shr32(i, 16), U32(0, 31)))

rd(i) == as_usize(And32(Shr32(i, 11), U32(0, 31)))

sa(i) == And32(Shr32(i, 6), U32(0, 31))

\* ((self.0 & 0xffff) as i16) as u32
simm(i) ==
    LET low == And32(i, U32(0, 65535))[2]
        i16 == IF low >= 32768 THEN low - 65536 ELSE low
    IN  IF i16 < 0 THEN U32(65535, i16 + 65536) ELSE U32(0, i16)

imm(i) == And32(i, U32(0, 4095))

jimm(i) == Shl32(And32(i, U32(1023, 65535)), 2)

-----------------------------------------------------------------------------
(* map: the region masks *)

\* a plausible slip: KSEG1 given the mask of KSEG0
REGION_MASKS_kseg1_as_kseg0 ==
    << U32(65535, 65535), U32(65535, 65535), U32(65535, 65535), U32(65535, 65535),
       U32(32767, 65535),
       U32(32767, 65535),
       U32(65535, 65535), U32(65535, 65535) >>

REGION_MASKS ==
    << U32(65535, 65535), U32(65535, 65535), U32(65535, 65535), U32(65535, 65535),
       U32(32767, 65535),
       U32(8191, 65535),
       U32(65535, 65535), U32(65535, 65535) >>

\* the table is indexed from 0 in the source, a TLA+ tuple from 1
mask(addr) == And32(addr, REGION_MASKS[as_usize(Shr32(addr, 29)) + 1])

-----------------------------------------------------------------------------
(* Cpu: the register file and the load delay slot *)

RESET_PC == U32(49088, 0)

\* Cpu::new
CpuNew ==
    [ regs |-> [r \in 0..31 |-> Zero],
      pc |-> RESET_PC,
      next_pc |-> wrapping_add(RESET_PC, U32(0, 4)),
      delayed_load |-> None,
      hi |-> Zero,
      lo |-> Zero ]

\* a plausible slip: set_reg without the re-clear of register 0
set_reg_no_clear(R, reg, val) == [R EXCEPT ![reg] = val]

\* Cpu::set_reg on the register file R
set_reg(R, reg, val) ==
    LET W == [R EXCEPT ![reg] = val]
    IN  [W EXCEPT ![0] = Zero]

\* Cpu::delayed_load on the register file R and the slot dl: the register
\* file and the slot it leaves
do_delayed_load(R, dl) ==
    IF dl # None
    THEN [regs |-> set_reg(R, dl[1], dl[2]), delayed_load |-> None]
    ELSE [regs |-> R, delayed_load |-> dl]

\* bound of the exploration: the number of calls made on the Cpu
MaxSteps == 3

\* inputs: the registers and values callers pass, and the instruction words
\* (rs in bits 25:21, rt in bits 20:16, the low half holding rd and the
\* immediate: 0x0001 has rd = 0, 0x0801 has rd = 1, 0xffff has rd = 31)
LoadRegs == {0, 1, 2}
Vals == { U32(0, 1), U32(65535, 65535) }
RsRegs == {1, 2}
RtRegs == {0, 2}
Lows == { 1, 2049, 65535 }
Words == { U32(s * 32 + t, l) : s \in RsRegs, t \in RtRegs, l \in Lows }

Handlers == { "addu", "subu", "addiu", "slt", "sltu", "slti", "sltiu",
              "and", "or", "xor", "nor", "ori", "xori" }

\* `last` before any call
NoLast == [op |-> "none", n |-> 0, i |-> Zero, pend |-> None, s |-> Zero, b |-> Zero,
           dest |-> 0, res |-> Zero]

\* The common tail of every handler, after its operand reads s and b:
\* cpu.delayed_load(); cpu.set_reg(dest, res).  `last` records the call: the
\* handler, the word, the slot as the handler found it, the operands it
\* read, and the register and value it passed to set_reg.
Retire(name, i, s, b, dest, res) ==
    LET c == do_delayed_load(regs, delayed_load)
    IN  /\ steps < MaxSteps
        /\ regs' = set_reg(c.regs, dest, res)
        /\ delayed_load' = c.delayed_load
        /\ steps' = steps + 1
        /\ last' = [op |-> name, n |-> steps + 1, i |-> i, pend |-> delayed_load,
                    s |-> s, b |-> b, dest |-> dest, res |-> res]
        /\ UNCHANGED <<pc, next_pc, hi, lo, padVars, mapVars, decVars>>

addu(i) ==
    LET s == regs[rs(i)]
        t == regs[rt(i)]
    IN  Retire("addu", i, s, t, rd(i), wrapping_add(s, t))

subu(i) ==
    LET s == regs[rs(i)]
        t == regs[rt(i)]
    IN  Retire("subu", i, s, t, rd(i), wrapping_sub(s, t))

addiu(i) ==
    LET s == regs[rs(i)]
        im == simm(i)
    IN  Retire("addiu", i, s, im, rd(i), wrapping_add(s, im))

slt(i) ==
    LET s == regs[rs(i)]
        t == regs[rt(i)]
    IN  Retire("slt", i, s, t, rd(i), bool_as_u32(as_i32(s) < as_i32(t)))

sltu(i) ==
    LET s == regs[rs(i)]
        t == regs[rt(i)]
    IN  Retire("sltu", i, s, t, rd(i), bool_as_u32(Lt32(s, t)))

slti(i) ==
    LET s == regs[rs(i)]
        im == simm(i)
    IN  Retire("slti", i, s, im, rt(i), bool_as_u32(as_i32(s) < as_i32(im)))

\* a plausible slip: the signed comparison of slti in the unsigned form
sltiu_signed(i) ==
    LET s == regs[rs(i)]
        im == simm(i)
    IN  Retire("sltiu", i, s, im, rt(i), bool_as_u32(as_i32(s) < as_i32(im)))

sltiu(i) ==
    LET s == regs[rs(i)]
        im == simm(i)
    IN  Retire("sltiu", i, s, im, rt(i), bool_as_u32(Lt32(s, im)))

and(i) ==
    LET s == regs[rs(i)]
        t == regs[rt(i)]
    IN  Retire("and", i, s, t, rd(i), And32(s, t))

or(i) ==
    LET s == regs[rs(i)]
        t == regs[rt(i)]
    IN  Retire("or", i, s, t, rd(i), Or32(s, t))

xor(i) ==
    LET s == regs[rs(i)]
        t == regs[rt(i)]
    IN  Retire("xor", i, s, t, rd(i), Xor32(s, t))

nor(i) ==
    LET s == regs[rs(i)]
        t == regs[rt(i)]
    IN  Retire("nor", i, s, t, rd(i), Not32(Or32(s, t)))

ori(i) ==
    LET s == regs[rs(i)]
        im == imm(i)
    IN  Retire("ori", i, s, im, rt(i), Or32(s, im))

xori(i) ==
    LET s == regs[rs(i)]
        im == imm(i)
    IN  Retire("xori", i, s, im, rt(i), Xor32(s, im))

\* a call cpu.set_reg(reg, val) made outside a handler
SetReg(reg, val) ==
    /\ steps < MaxSteps
    /\ regs' = set_reg(regs, reg, val)
    /\ steps' = steps + 1
    /\ last' = [NoLast EXCEPT !.op = "set_reg", !.n = steps + 1, !.pend = delayed_load,
                              !.dest = reg, !.res = val]
    /\ UNCHANGED <<pc, next_pc, delayed_load, hi, lo, padVars, mapVars, decVars>>

\* a call cpu.delayed_load() made outside a handler
CommitLoad ==
    LET c == do_delayed_load(regs, delayed_load)
    IN  /\ steps < MaxSteps
        /\ regs' = c.regs
        /\ delayed_load' = c.delayed_load
        /\ steps' = steps + 1
        /\ last' = [NoLast EXCEPT !.op = "delayed_load", !.n = steps + 1,
                                  !.pend = delayed_load]
        /\ UNCHANGED <<pc, next_pc, hi, lo, padVars, mapVars, decVars>>

\* a load-class caller fills the public slot, cpu.delayed_load = Some((reg, val)),
\* replacing what was pending; `last` keeps the last call made on the Cpu
ScheduleLoad(reg, val) ==
    /\ steps < MaxSteps
    /\ delayed_load' = <<reg, val>>
    /\ steps' = steps + 1
    /\ UNCHANGED <<regs, pc, next_pc, hi, lo, last, padVars, mapVars, decVars>>

InitCpu ==
    /\ regs = CpuNew.regs
    /\ pc = CpuNew.pc
    /\ next_pc = CpuNew.next_pc
    /\ delayed_load = CpuNew.delayed_load
    /\ hi = CpuNew.hi
    /\ lo = CpuNew.lo
    /\ last = NoLast
    /\ steps = 0

\* no Cpu constructed
NoCpu ==
    /\ regs = None /\ pc = None /\ next_pc = None /\ delayed_load = None
    /\ hi = None /\ lo = None /\ last = None /\ steps = 0

Next ==
    \/ \E i \in Words : addu(i)
    \/ \E i \in Words : subu(i)
    \/ \E i \in Words : addiu(i)
    \/ \E i \in Words : slt(i)
    \/ \E i \in Words : sltu(i)
    \/ \E i \in Words : slti(i)
    \/ \E i \in Words : sltiu(i)
    \/ \E i \in Words : and(i)
    \/ \E i \in Words : or(i)
    \/ \E i \in Words : xor(i)
    \/ \E i \in Words : nor(i)
    \/ \E i \in Words : ori(i)
    \/ \E i \in Words : xori(i)
    \/ \E r \in LoadRegs, v \in Vals : SetReg(r, v)
    \/ \E r \in LoadRegs, v \in Vals : ScheduleLoad(r, v)
    \/ CommitLoad

-----------------------------------------------------------------------------
(* ScratchPad and the Addressable widths *)

SCRATCHPAD_SIZE == 1024

\* the types implementing Addressable
Types == { "u8", "u16", "u32" }

\* W::WIDTH as usize: BusWidth::Byte = 1, Word = 2, DoubleWord = 4
WIDTH(ty) == CASE ty = "u8" -> 1 [] ty = "u16" -> 2 [] ty = "u32" -> 4

\* W::from_u32: a u8 and a u16 are naturals, a u32 is a pair of halves
from_u32(ty, val) ==
    CASE ty = "u8" -> val[2] % 256
      [] ty = "u16" -> val[2]
      [] ty = "u32" -> val

\* W::as_u32
as_u32(ty, v) ==
    CASE ty = "u8" -> U32(0, v)
      [] ty = "u16" -> U32(0, v)
      [] ty = "u32" -> v

\* (offset & 0x7fffff) as usize
pad_index(offset) == as_usize(And32(offset, U32(127, 65535)))

\* a plausible slip: the shift left out, every round writing the low byte
store_byte_no_shift(val, i) == val[2] % 256

\* the byte the store loop writes in round i: (val >> (i * 8)) as u8
store_byte(val, i) == Shr32(val, i * 8)[2] % 256

\* the load loop from round i on: val |= (dat[offset + i] as u32) << (i * 8);
\* an index outside dat panics
RECURSIVE load_loop(_, _, _, _, _)
load_loop(D, base, width, i, val) ==
    IF i = width THEN [val |-> val, panicked |-> FALSE]
    ELSE IF base + i >= SCRATCHPAD_SIZE THEN [val |-> val, panicked |-> TRUE]
    ELSE load_loop(D, base, width, i + 1, Or32(val, Shl32(U32(0, D[base + i]), i * 8)))

\* the store loop from round i on: dat[offset + i] = (val >> (i * 8)) as u8;
\* the bytes written before an index outside dat panics stay written
RECURSIVE store_loop(_, _, _, _, _)
store_loop(D, base, width, i, val) ==
    IF i = width THEN [dat |-> D, panicked |-> FALSE]
    ELSE IF base + i >= SCRATCHPAD_SIZE THEN [dat |-> D, panicked |-> TRUE]
    ELSE store_loop([D EXCEPT ![base + i] = store_byte(val, i)], base, width, i + 1, val)

\* bound of the exploration: the number of accesses to the ScratchPad
MaxOps == 2

\* inputs: offsets inside the array, at its end, past it, and with high bits
\* set (0x00800001, 0xffffffff); values of each width
PadOffsets == { U32(0, 0), U32(0, 1), U32(0, 3), U32(0, 1022), U32(0, 1024),
                U32(128, 1), U32(65535, 65535) }
PadVals(ty) ==
    CASE ty = "u8" -> { 120, 212 }
      [] ty = "u16" -> { 22136, 50132 }
      [] ty = "u32" -> { U32(4660, 22136), U32(41394, 50132) }

\* ScratchPad::load::<ty>(offset)
load(ty, offset) ==
    LET base == pad_index(offset)
        r == load_loop(dat, base, WIDTH(ty), 0, Zero)
    IN  /\ ~panicked
        /\ ops < MaxOps
        /\ panicked' = r.panicked
        /\ padPrev' = padLast
        /\ padLast' = [kind |-> "load", ty |-> ty, offset |-> offset, base |-> base,
                       val |-> IF r.panicked THEN None ELSE from_u32(ty, r.val)]
        /\ ops' = ops + 1
        /\ UNCHANGED <<dat, cpuVars, mapVars, decVars>>

\* ScratchPad::store::<ty>(offset, v)
store(ty, offset, v) ==
    LET base == pad_index(offset)
        r == store_loop(dat, base, WIDTH(ty), 0, as_u32(ty, v))
    IN  /\ ~panicked
        /\ ops < MaxOps
        /\ dat' = r.dat
        /\ panicked' = r.panicked
        /\ padPrev' = padLast
        /\ padLast' = [kind |-> "store", ty |-> ty, offset |-> offset, base |-> base,
                       val |-> v]
        /\ ops' = ops + 1
        /\ UNCHANGED <<cpuVars, mapVars, decVars>>

NoAccess == [kind |-> "none", ty |-> "u8", offset |-> Zero, base |-> 0, val |-> None]

\* ScratchPad::new
InitPad ==
    /\ dat = [a \in 0..(SCRATCHPAD_SIZE - 1) |-> 0]
    /\ panicked = FALSE
    /\ padLast = NoAccess
    /\ padPrev = NoAccess
    /\ ops = 0

\* no ScratchPad constructed
NoPad ==
    /\ dat = None /\ panicked = FALSE /\ padLast = None /\ padPrev = None /\ ops = 0

NextPad ==
    \/ \E ty \in Types, o \in PadOffsets : load(ty, o)
    \/ \E ty \in Types, o \in PadOffsets : \E v \in PadVals(ty) : store(ty, o, v)

-----------------------------------------------------------------------------
(* map::mask applied to an address *)

\* inputs: every region (bits 31:29) with a few offsets inside it
AddrHighs == { 0, 1, 8191 }
AddrLows == { 0, 4, 65535 }
Addrs == { U32(g * 8192 + h, l) : g \in 0..7, h \in AddrHighs, l \in AddrLows }

InitMap == maskIn \in Addrs /\ maskOut = None

NoMap == maskIn = None /\ maskOut = None

CallMask ==
    /\ maskOut = None
    /\ maskOut' = mask(maskIn)
    /\ UNCHANGED <<maskIn, cpuVars, padVars, decVars>>

-----------------------------------------------------------------------------
(* Instruction::new(word) and its accessors *)

\* inputs: high halves with the primary opcode and rs, rt set or clear, low
\* halves with each of the low six bits and the fields above them
DecHighs == { 0, 34, 1024, 9256, 65535 }
DecLows == { 0, 1, 31, 32, 33, 36, 63, 64, 2049, 32768, 65535 }
DecWords == { U32(h, l) : h \in DecHighs, l \in DecLows }

NoFields == [op |-> -1, op2 |-> -1, rs |-> -1, rt |-> -1, rd |-> -1, sa |-> Zero,
             simm |-> Zero, imm |-> Zero, jimm |-> Zero]

InitDec == word \in DecWords /\ fields = NoFields

NoDec == word = None /\ fields = None

Decode ==
    /\ fields = NoFields
    /\ fields' = [op |-> op(word), op2 |-> op2(word), rs |-> rs(word), rt |-> rt(word),
                  rd |-> rd(word), sa |-> sa(word), simm |-> simm(word),
                  imm |-> imm(word), jimm |-> jimm(word)]
    /\ UNCHANGED <<word, cpuVars, padVars, mapVars>>

-----------------------------------------------------------------------------
(* The specifications: one per object *)

\* the Cpu from Cpu::new() under any calls of its handlers and methods
Init == InitCpu /\ NoPad /\ NoMap /\ NoDec
Spec == Init /\ [][Next]_vars

\* the ScratchPad from ScratchPad::new() under any loads and stores
PadInit == NoCpu /\ InitPad /\ NoMap /\ NoDec
SpecPad == PadInit /\ [][NextPad]_vars

\* map::mask on any address
MapInit == NoCpu /\ NoPad /\ InitMap /\ NoDec
NextMap == CallMask
SpecMap == MapInit /\ [][NextMap]_vars

\* the decoder on any word
DecInit == NoCpu /\ NoPad /\ NoMap /\ InitDec
NextDec == Decode
SpecDec == DecInit /\ [][NextDec]_vars

-----------------------------------------------------------------------------
(* What the claims speak of *)

\* the step just taken is a call of handler name
Ran(name) == steps' = steps + 1 /\ last'.n = steps' /\ last'.op = name

\* the step just taken is a call of some handler
RanHandler == steps' = steps + 1 /\ last'.n = steps' /\ last'.op \in Handlers

\* the handlers taking an immediate, and the destination register the
\* instruction set gives each handler: rt for the immediate forms, rd for
\* the register forms
ImmForms == { "addiu", "slti", "sltiu", "ori", "xori" }
Destination(name, i) == IF name \in ImmForms THEN rt(i) ELSE rd(i)

\* whether handler name reads register r as rs or as rt under word i
Reads(name, i, r) == rs(i) = r \/ (name \notin ImmForms /\ rt(i) = r)

\* bits 15:0 of a word sign-extended, and zero-extended, to 32 bits
SignExtended(i) == U32(IF i[2] >= 32768 THEN 65535 ELSE 0, i[2])
ZeroExtended(i) == U32(0, i[2])

\* a < b as signed, and as unsigned, 32-bit values
SignedLess(a, b) ==
    LET na == a[1] >= 32768
        nb == b[1] >= 32768
    IN  IF na # nb THEN na ELSE Lt32(a, b)
UnsignedLess(a, b) == Lt32(a, b)

\* what a register holds after set_reg(d, v)
Written(d, v) == IF d = 0 THEN Zero ELSE v

-----------------------------------------------------------------------------
(* C1: register 0 holds zero in every state reachable from Cpu::new() by    *)
(* set_reg calls, delayed-load commits and ALU handlers, whatever the       *)
(* instruction word and the pending load.                                   *)
C1_RegisterZero == regs[0] = Zero

\* a handler found a non-zero load pending for register 0 and wrote a
\* non-zero result to register 0
C1_Witness ==
    /\ last.op \in Handlers
    /\ last.pend # None
    /\ last.pend[1] = 0
    /\ last.pend[2] # Zero
    /\ last.dest = 0
    /\ last.res # Zero
    /\ regs[0] = Zero

(* C2: with a load (r, V), r # 0, pending, a handler that reads r computes  *)
(* from the value r held before it ran; and the next handler that reads r   *)
(* observes V, provided the first instruction's destination was not r.      *)
C2_LoadDelayOrdering ==
    [][ /\ ( /\ RanHandler
             /\ delayed_load # None
             /\ delayed_load[1] # 0
             /\ Reads(last'.op, last'.i, delayed_load[1]) )
           => /\ last'.s = regs[rs(last'.i)]
              /\ last'.op \notin ImmForms => last'.b = regs[rt(last'.i)]
        /\ ( /\ last.op \in Handlers
             /\ last.pend # None
             /\ last.pend[1] # 0
             /\ Reads(last.op, last.i, last.pend[1])
             /\ Destination(last.op, last.i) # last.pend[1]
             /\ RanHandler
             /\ Reads(last'.op, last'.i, last.pend[1]) )
           => /\ rs(last'.i) = last.pend[1] => last'.s = last.pend[2]
              /\ (last'.op \notin ImmForms /\ rt(last'.i) = last.pend[1])
                    => last'.b = last.pend[2]
      ]_vars

(* C2 with the destination read as the register the handler passes to      *)
(* set_reg (last.dest): the ordering itself holds of every handler.         *)
C2_OrderingOfWrittenRegister ==
    [][ /\ ( /\ RanHandler
             /\ delayed_load # None
             /\ delayed_load[1] # 0
             /\ Reads(last'.op, last'.i, delayed_load[1]) )
           => /\ last'.s = regs[rs(last'.i)]
              /\ last'.op \notin ImmForms => last'.b = regs[rt(last'.i)]
        /\ ( /\ last.op \in Handlers
             /\ last.pend # None
             /\ last.pend[1] # 0
             /\ Reads(last.op, last.i, last.pend[1])
             /\ last.dest # last.pend[1]
             /\ RanHandler
             /\ Reads(last'.op, last'.i, last.pend[1]) )
           => /\ rs(last'.i) = last.pend[1] => last'.s = last.pend[2]
              /\ (last'.op \notin ImmForms /\ rt(last'.i) = last.pend[1])
                    => last'.b = last.pend[2]
      ]_vars

(* C3: addiu writes regs[rs] + sign-extended immediate (mod 2^32) to rt and *)
(* leaves every register other than rt and the target of the committed load *)
(* unchanged; rd is not written unless it is rt.                            *)
C3_AddiuWritesRt ==
    [][ Ran("addiu") =>
          LET i == last'.i
              t == rt(i)
              sum == wrapping_add(regs[rs(i)], SignExtended(i))
          IN  /\ regs'[t] = Written(t, sum)
              /\ \A r \in 0..31 :
                    (r # t /\ (delayed_load = None \/ delayed_load[1] # r))
                       => regs'[r] = regs[r]
      ]_vars

(* C4: ori and xori write to rt the OR / XOR of regs[rs] with bits 15:0 of  *)
(* the word, the upper 16 bits of the immediate zero.                       *)
C4_OriXoriZeroExtended ==
    [][ /\ Ran("ori") =>
             regs'[rt(last'.i)] =
                 Written(rt(last'.i), Or32(regs[rs(last'.i)], ZeroExtended(last'.i)))
        /\ Ran("xori") =>
             regs'[rt(last'.i)] =
                 Written(rt(last'.i), Xor32(regs[rs(last'.i)], ZeroExtended(last'.i)))
      ]_vars

(* C9: slt and slti write 1 when regs[rs] is less than the second operand   *)
(* as signed 32-bit values, sltu and sltiu when it is less as unsigned      *)
(* 32-bit values, else 0; the immediate forms compare against the           *)
(* sign-extended immediate; the register forms write rd, the immediate      *)
(* forms rt.                                                                *)
C9_SetLessThan ==
    [][ LET i == last'.i
            s == regs[rs(i)]
            t == regs[rt(i)]
            Wrote(d, b) == /\ last'.dest = d
                           /\ last'.res = (IF b THEN One ELSE Zero)
                           /\ regs'[d] = Written(d, IF b THEN One ELSE Zero)
        IN  /\ Ran("slt") => Wrote(rd(i), SignedLess(s, t))
            /\ Ran("sltu") => Wrote(rd(i), UnsignedLess(s, t))
            /\ Ran("slti") => Wrote(rt(i), SignedLess(s, SignExtended(i)))
            /\ Ran("sltiu") => Wrote(rt(i), UnsignedLess(s, SignExtended(i)))
      ]_vars

\* slt compared 0xffffffff with 1 and wrote 1
C9_Witness ==
    /\ last.op = "slt"
    /\ last.s = U32(65535, 65535)
    /\ last.b = One
    /\ last.dest # 0
    /\ regs[last.dest] = One

\* sltiu compared 1 with the immediate 0xffff, as 0xffffffff, and wrote 1
C9_WitnessSltiu ==
    /\ last.op = "sltiu"
    /\ last.s = One
    /\ last.i[2] = 65535
    /\ last.dest # 0
    /\ regs[last.dest] = One

(* C10: after any handler the slot is empty; a load (r, V), r # 0, that was *)
(* pending has been applied when r is not the instruction's destination,    *)
(* and when r is the destination the register holds the handler's result;   *)
(* a commit with nothing pending changes no register.                       *)
C10_CommitBeforeWriteBack ==
    [][ /\ RanHandler =>
             LET d == Destination(last'.op, last'.i)
             IN  /\ delayed_load' = None
                 /\ (delayed_load # None /\ delayed_load[1] # 0) =>
                       /\ delayed_load[1] # d => regs'[delayed_load[1]] = delayed_load[2]
                       /\ delayed_load[1] = d => regs'[delayed_load[1]] = last'.res
        /\ (Ran("delayed_load") /\ delayed_load = None) => regs' = regs
      ]_vars

(* C10 with the destination read as the register the handler passes to     *)
(* set_reg: the commit comes once, before the write-back, in every handler. *)
C10_CommitBeforeWrittenRegister ==
    [][ /\ RanHandler =>
             LET d == last'.dest
             IN  /\ delayed_load' = None
                 /\ (delayed_load # None /\ delayed_load[1] # 0) =>
                       /\ delayed_load[1] # d => regs'[delayed_load[1]] = delayed_load[2]
                       /\ delayed_load[1] = d => regs'[delayed_load[1]] = last'.res
        /\ (Ran("delayed_load") /\ delayed_load = None) => regs' = regs
      ]_vars

-----------------------------------------------------------------------------
(* ScratchPad claims *)

\* byte k of a value v of type ty, least significant first: (v >> 8k) & 0xff
ByteOf(ty, v, k) ==
    LET w == IF ty = "u32" THEN v ELSE U32(0, v)
    IN  IF k < 2 THEN (w[2] \div (256 ^ k)) % 256 ELSE (w[1] \div (256 ^ (k - 2))) % 256

\* an access of ty at offset lies inside dat[0 .. 1023]
InRange(ty, offset) == offset[1] = 0 /\ offset[2] + WIDTH(ty) <= SCRATCHPAD_SIZE

\* offset mod 1024
Wrapped(offset) == offset[2] % SCRATCHPAD_SIZE

(* C5: for every 32-bit offset and every width, load and store use the      *)
(* offset mod 1024 and never index a byte outside dat[0 .. 1023]: no access *)
(* panics, whatever the offset.                                             *)
C5_ScratchpadWraps ==
    /\ ~panicked
    /\ padLast.kind # "none" => padLast.base = Wrapped(padLast.offset)

(* C8: for an in-range offset a store puts byte k of v, least significant   *)
(* first, at dat[offset + k] and leaves the other bytes unchanged; a load   *)
(* of the same width at the same offset returns v; after a 4-byte store at  *)
(* offset 0 a 1-byte load at k returns byte k of v and a 2-byte load at 0   *)
(* returns v & 0xffff.                                                      *)
C8_StorePlacesBytes ==
    (padLast.kind = "store" /\ InRange(padLast.ty, padLast.offset)) =>
        /\ ~panicked
        /\ \A k \in 0..(WIDTH(padLast.ty) - 1) :
              dat[padLast.offset[2] + k] = ByteOf(padLast.ty, padLast.val, k)

C8_LoadReturnsStored ==
    ( /\ padPrev.kind = "store"
      /\ padLast.kind = "load"
      /\ InRange(padPrev.ty, padPrev.offset)
      /\ InRange(padLast.ty, padLast.offset) ) =>
        /\ ~panicked
        /\ (padLast.ty = padPrev.ty /\ padLast.offset = padPrev.offset)
              => padLast.val = padPrev.val
        /\ (padPrev.ty = "u32" /\ padPrev.offset = Zero /\ padLast.ty = "u8"
                /\ padLast.offset[2] < 4)
              => padLast.val = ByteOf("u32", padPrev.val, padLast.offset[2])
        /\ (padPrev.ty = "u32" /\ padPrev.offset = Zero /\ padLast.ty = "u16"
                /\ padLast.offset = Zero)
              => padLast.val = padPrev.val[2]

C8_StoreFrame ==
    ( /\ ops' = ops + 1
      /\ padLast'.kind = "store"
      /\ InRange(padLast'.ty, padLast'.offset) ) =>
        \A a \in 0..(SCRATCHPAD_SIZE - 1) :
            (a < padLast'.offset[2] \/ a >= padLast'.offset[2] + WIDTH(padLast'.ty))
               => dat'[a] = dat[a]

(* C8, in full: the three parts above, in every state and on every store.   *)
C8_RoundTrip ==
    /\ [](C8_StorePlacesBytes /\ C8_LoadReturnsStored)
    /\ [][C8_StoreFrame]_vars

\* 0x12345678 stored as a u32 at offset 0, then the byte at offset 3 loaded: 0x12
C8_Witness ==
    /\ padPrev.kind = "store" /\ padPrev.ty = "u32" /\ padPrev.offset = Zero
    /\ padPrev.val = U32(4660, 22136)
    /\ padLast.kind = "load" /\ padLast.ty = "u8" /\ padLast.offset = U32(0, 3)
    /\ ~panicked
    /\ padLast.val = 18

-----------------------------------------------------------------------------
(* Region mapper claim *)

(* C6: mask returns the address unchanged in regions 0-3, 6 and 7 (address   *)
(* bits 31:29) and with the top 3 bits cleared in regions 4 and 5; so        *)
(* 0x80010000 and 0xa0010000 map to 0x00010000 and 0x00010000 to itself.     *)
C6_RegionMask ==
    maskOut # None =>
        LET region == maskIn[1] \div 8192
        IN  maskOut = IF region \in {4, 5} THEN U32(maskIn[1] % 8192, maskIn[2])
                      ELSE maskIn

\* 0xa0010000 mapped to 0x00010000
C6_Witness == maskIn = U32(40961, 0) /\ maskOut = U32(1, 0)

\* 0x80010000 mapped to 0x00010000
C6_WitnessKseg0 == maskIn = U32(32769, 0) /\ maskOut = U32(1, 0)

-----------------------------------------------------------------------------
(* Decoder claim *)

(* C7: op2 returns bits 5:0 of the word, a value in 0..63, for every word;  *)
(* two words differing only in bit 5 decode to different secondary opcodes. *)
C7_Op2SixBits == fields # NoFields => fields.op2 = word[2] % 64

=============================================================================
